---- MODULE Spec2Model ----
(***************************************************************************)
(* Model of the capoeira song book: the CSV export of Home.tsx, the CSV    *)
(* import of ImportModal (parseCSV, handleFileChange) and the row-level    *)
(* security policies of the songs / prompter_settings migration.           *)
(*                                                                         *)
(* A JavaScript string is modelled as a sequence of one-character strings, *)
(* so that the parser and the serializer work character by character as    *)
(* the code does.                                                          *)
(***************************************************************************)
EXTENDS Integers, Sequences, FiniteSets, TLC

VARIABLES
  songs,            \* useSongs().songs: the list handleExport serializes
  csvContent,       \* the text of the last download, or NoFile
  showImportModal,  \* Home's useState(false)
  error,            \* ImportModal's useState(''), as a structured message
  lastFile,         \* the file of the last run of handleFileChange, or NoFile
  callLog,          \* the callbacks the last run of handleFileChange invoked
  chosen,           \* the file on the user's disk the file input may be given
  text,             \* an input of parseCSV
  rows,             \* parseCSV(text), once applied
  cell,             \* an input of the un-quoting pass
  once,             \* the pass applied to cell
  twice,            \* the pass applied to once
  pc,               \* position of the pure-function harnesses
  songsTbl,         \* table songs: id -> row, or NoRow
  settingsTbl,      \* table prompter_settings: its rows, at most one per user_id
  lastReq           \* the statement the storage layer ran last, with its outcome, until delivered

csvVars == <<songs, csvContent, showImportModal, error, lastFile, callLog, chosen>>
fnVars == <<text, rows, cell, once, twice, pc>>
dbVars == <<songsTbl, settingsTbl, lastReq>>
vars == <<csvVars, fnVars, dbVars>>

----------------------------------------------------------------------------
(* Characters *)

DQ == "\""
COMMA == ","
CR == "\r"
LF == "\n"
SP == " "

(* Bounds of the model *)
MaxTextLen == 5
MaxFieldLen == 2
MaxCellLen == 4
MaxQuotedLen == 3
MaxSongs == 2
MaxDataRows == 2
MaxSongIds == 2

----------------------------------------------------------------------------
(* Sequence helpers standing for the JavaScript built-ins the code uses *)

\* All sequences over S of length at most n
SeqsUpTo(S, n) == UNION {[1..k -> S] : k \in 0..n}

Last(s) == s[Len(s)]
Front(s) == SubSeq(s, 1, Len(s) - 1)

RECURSIVE Join(_, _)
\* Array.prototype.join: the parts separated by sep
Join(parts, sep) ==
  IF parts = <<>> THEN <<>>
  ELSE IF Len(parts) = 1 THEN parts[1]
  ELSE parts[1] \o sep \o Join(Tail(parts), sep)


Undefined == <<"undefined">>  \* JavaScript's undefined: a value no string equals

\* value || '' for a string or undefined
OrEmpty(value) == IF value = Undefined THEN <<>> ELSE value

\* !value for a string or undefined
Falsy(value) == value = Undefined \/ value = <<>>

UpperLetters == <<"A", "B", "C", "D", "E", "F", "G", "H", "I", "J", "K", "L", "M", "N", "O", "P", "Q", "R", "S", "T", "U", "V", "W", "X", "Y", "Z">>
LowerLetters == <<"a", "b", "c", "d", "e", "f", "g", "h", "i", "j", "k", "l", "m", "n", "o", "p", "q", "r", "s", "t", "u", "v", "w", "x", "y", "z">>

\* String.prototype.toLowerCase on one character
LowerChar(c) ==
  IF \E k \in 1..Len(UpperLetters) : UpperLetters[k] = c
  THEN LowerLetters[CHOOSE k \in 1..Len(UpperLetters) : UpperLetters[k] = c]
  ELSE c

toLowerCase(s) == [k \in 1..Len(s) |-> LowerChar(s[k])]

WhiteSpace == {SP, "\t", CR, LF}

RECURSIVE trimStart(_)
trimStart(s) ==
  IF s # <<>> /\ Head(s) \in WhiteSpace THEN trimStart(Tail(s)) ELSE s

RECURSIVE trimEnd(_)
trimEnd(s) ==
  IF s # <<>> /\ Last(s) \in WhiteSpace THEN trimEnd(Front(s)) ELSE s

\* String.prototype.trim
trim(s) == trimEnd(trimStart(s))

----------------------------------------------------------------------------
(* The words of the format *)

Title == <<"t", "i", "t", "l", "e">>
Category == <<"c", "a", "t", "e", "g", "o", "r", "y">>
Mnemonic == <<"m", "n", "e", "m", "o", "n", "i", "c">>
Lyrics == <<"l", "y", "r", "i", "c", "s">>
MediaLink == <<"m", "e", "d", "i", "a", "L", "i", "n", "k">>

Angola == <<"a", "n", "g", "o", "l", "a">>
SaoBentoPequeno == <<"s", "a", "o", "B", "e", "n", "t", "o", "P", "e", "q", "u", "e", "n", "o">>
SaoBentoGrande == <<"s", "a", "o", "B", "e", "n", "t", "o", "G", "r", "a", "n", "d", "e">>

\* ['angola', 'saoBentoPequeno', 'saoBentoGrande']
ValidCategories == {Angola, SaoBentoPequeno, SaoBentoGrande}

----------------------------------------------------------------------------
(* handleExport (Home.tsx) *)

RECURSIVE DoubleQuotes(_)
\* value.replace(/"/g, '""')
DoubleQuotes(value) ==
  IF value = <<>> THEN <<>>
  ELSE (IF Head(value) = DQ THEN <<DQ, DQ>> ELSE <<Head(value)>>)
       \o DoubleQuotes(Tail(value))

\* a variant that wraps the value without escaping it
QuotedFieldUnescaped(value) == <<DQ>> \o value \o <<DQ>>

\* `"${value.replace(/"/g, '""')}"`
QuotedField(value) == <<DQ>> \o DoubleQuotes(value) \o <<DQ>>

\* the header line of the export
ExportHeader == Join(<<Title, Category, Mnemonic, Lyrics, MediaLink>>, <<COMMA>>)

\* one song's line: the category is written as it is, the four texts quoted
ExportRow(song) ==
  Join(<<QuotedField(song.title),
         song.category,
         QuotedField(OrEmpty(song.mnemonic)),
         QuotedField(OrEmpty(song.lyrics)),
         QuotedField(OrEmpty(song.mediaLink))>>, <<COMMA>>)

\* csvContent of handleExport
ExportCsv(list) ==
  Join(<<ExportHeader>> \o [k \in 1..Len(list) |-> ExportRow(list[k])], <<LF>>)

----------------------------------------------------------------------------
(* parseCSV (ImportModal) *)

\* text[i] of a JavaScript string, 1-based here
CharAt(t, i) == IF i >= 1 /\ i <= Len(t) THEN t[i] ELSE "undefined"

\* if (currentValue || row.length > 0)
RowHasContent(currentValue, row) == currentValue # <<>> \/ Len(row) > 0

\* a variant that forgets the inQuotes test
IsEscapedQuoteAnywhere(inQuotes, nextChar) == nextChar = DQ

\* if (inQuotes && nextChar === '"')
IsEscapedQuote(inQuotes, nextChar) == inQuotes /\ nextChar = DQ

\* if (char === '\r' && nextChar === '\n'), tested inside and outside quotes alike
SkipsLineFeed(char, nextChar) == char = CR /\ nextChar = LF

\* else if (char === ',' && !inQuotes)
IsSeparator(char, inQuotes) == char = COMMA /\ ~inQuotes

\* the loop's variables; skip is set when the body's own i++ passes over text[i + 1]
ParseStart ==
  [result |-> <<>>, row |-> <<>>, inQuotes |-> FALSE, currentValue |-> <<>>, skip |-> FALSE]

\* one turn of the while loop at index i
parseStep(t, i, st) ==
  LET char == CharAt(t, i)
      nextChar == CharAt(t, i + 1)
  IN
  IF st.skip THEN [st EXCEPT !.skip = FALSE]
  ELSE IF char = CR \/ char = LF THEN
    IF st.inQuotes
    THEN [st EXCEPT !.currentValue = Append(@, char),
                    !.skip = SkipsLineFeed(char, nextChar)]
    ELSE [st EXCEPT !.result = IF RowHasContent(st.currentValue, st.row)
                               THEN Append(@, Append(st.row, st.currentValue))
                               ELSE @,
                    !.row = <<>>,
                    !.currentValue = <<>>,
                    !.skip = SkipsLineFeed(char, nextChar)]
  ELSE IF char = DQ THEN
    IF IsEscapedQuote(st.inQuotes, nextChar)
    THEN [st EXCEPT !.currentValue = Append(@, DQ), !.skip = TRUE]
    ELSE [st EXCEPT !.inQuotes = ~@]
  ELSE IF IsSeparator(char, st.inQuotes) THEN
    [st EXCEPT !.row = Append(@, st.currentValue), !.currentValue = <<>>]
  ELSE
    [st EXCEPT !.currentValue = Append(@, char)]

RECURSIVE parseLoop(_, _, _, _)
\* while (i < text.length) over the indices lo..hi, halved to keep the nesting shallow
parseLoop(t, lo, hi, st) ==
  IF lo > hi THEN st
  ELSE IF lo = hi THEN parseStep(t, lo, st)
  ELSE LET mid == (lo + hi) \div 2
           left == parseLoop(t, lo, mid, st)
       IN \* the test makes the left half be evaluated before the right one starts
          IF left.skip \in BOOLEAN THEN parseLoop(t, mid + 1, hi, left) ELSE left

\* the flush after the loop
parseFlush(st) ==
  IF RowHasContent(st.currentValue, st.row)
  THEN Append(st.result, Append(st.row, st.currentValue))
  ELSE st.result

parseCSV(t) == parseFlush(parseLoop(t, 1, Len(t), ParseStart))

----------------------------------------------------------------------------
(* handleFileChange (ImportModal): header mapping, un-quoting, validation *)

\* value.replace(/^"|"$/g, ''): one quote off the start, one off the end
StripOuterQuotes(value) ==
  LET v1 == IF value # <<>> /\ Head(value) = DQ THEN Tail(value) ELSE value
  IN IF v1 # <<>> /\ Last(v1) = DQ THEN Front(v1) ELSE v1

RECURSIVE UndoubleQuotes(_)
\* value.replace(/""/g, '"'): left to right, matches do not overlap
UndoubleQuotes(value) ==
  IF Len(value) >= 2 /\ value[1] = DQ /\ value[2] = DQ
  THEN <<DQ>> \o UndoubleQuotes(SubSeq(value, 3, Len(value)))
  ELSE IF value = <<>> THEN <<>>
  ELSE <<Head(value)>> \o UndoubleQuotes(Tail(value))

\* a variant with the arguments of the second replace exchanged
UnquotePassDoubling(value) == DoubleQuotes(StripOuterQuotes(value))

\* the second un-quoting pass of every imported cell
UnquotePass(value) == UndoubleQuotes(StripOuterQuotes(value))

\* rows[0].map(h => h.toLowerCase().trim())
HeaderNames(headerRow) == [k \in 1..Len(headerRow) |-> trim(toLowerCase(headerRow[k]))]

\* headers.includes(name)
Includes(headers, name) == \E k \in 1..Len(headers) : headers[k] = name

\* song[key] of the object built by headers.forEach
Get(song, key) == IF key \in DOMAIN song THEN song[key] ELSE Undefined

\* song[header.trim()] = value
Put(song, key, value) ==
  [k \in DOMAIN song \cup {key} |-> IF k = key THEN value ELSE song[k]]

\* values[index] || ''
CellOf(values, index) == IF index <= Len(values) THEN values[index] ELSE <<>>

RECURSIVE forEachHeader(_, _, _, _)
forEachHeader(headers, values, index, song) ==
  IF index > Len(headers) THEN song
  ELSE forEachHeader(headers, values, index + 1,
                     Put(song, trim(headers[index]), UnquotePass(CellOf(values, index))))

\* the object a data row becomes
MapRow(headers, values) == forEachHeader(headers, values, 1, << >>)

\* a variant that forgets the header line
LineOfDataRow(rowIndex) == rowIndex + 1

\* the line number of an error message: ${rowIndex + 2}, rowIndex counted from 0
LineOf(rowIndex) == rowIndex + 2

\* if (!song.title && !song.mnemonic)
LacksTitleAndMnemonic(song) == Falsy(Get(song, Title)) /\ Falsy(Get(song, Mnemonic))

\* if (![...].includes(song.category))
HasInvalidCategory(song) == Get(song, Category) \notin ValidCategories

NoError == [kind |-> "none"]

\* the Error a data row throws, or NoError
RowError(song, rowIndex) ==
  IF LacksTitleAndMnemonic(song)
  THEN [kind |-> "titleOrMnemonic", line |-> LineOf(rowIndex)]
  ELSE IF HasInvalidCategory(song)
  THEN [kind |-> "category", line |-> LineOf(rowIndex), category |-> Get(song, Category)]
  ELSE NoError

RECURSIVE mapRows(_, _, _, _)
\* rows.slice(1).map(...): the first throw ends the map
mapRows(headers, data, rowIndex, acc) ==
  IF rowIndex >= Len(data) THEN [error |-> NoError, songs |-> acc]
  ELSE LET song == MapRow(headers, data[rowIndex + 1])
           err == RowError(song, rowIndex)
       IN IF err # NoError THEN [error |-> err, songs |-> acc]
          ELSE mapRows(headers, data, rowIndex + 1, Append(acc, song))

\* if (rows.length < 2)
TooFewRows(parsed) == Len(parsed) < 2

\* if (!headers.includes('title') || !headers.includes('category'))
MissingColumns(headers) == ~Includes(headers, Title) \/ ~Includes(headers, Category)

\* the try block up to onImport: what is thrown, or the songs to hand over
ImportResult(fileText) ==
  LET parsed == parseCSV(fileText) IN
  IF TooFewRows(parsed) THEN [error |-> [kind |-> "tooFewRows"], songs |-> <<>>]
  ELSE LET headers == HeaderNames(parsed[1]) IN
       IF MissingColumns(headers)
       THEN [error |-> [kind |-> "missingColumns"], songs |-> <<>>]
       ELSE mapRows(headers, Tail(parsed), 0, <<>>)

\* a variant that hands over the rows mapped before the one that failed
CallsOfWritingBeforeError(result) ==
  IF result.error = NoError
  THEN <<[fn |-> "onImport", arg |-> result.songs], [fn |-> "onClose"]>>
  ELSE <<[fn |-> "onImport", arg |-> result.songs],
         [fn |-> "setError", arg |-> result.error]>>

\* the callbacks one run invokes, in order
CallsOf(result) ==
  IF result.error = NoError
  THEN <<[fn |-> "onImport", arg |-> result.songs], [fn |-> "onClose"]>>
  ELSE <<[fn |-> "setError", arg |-> result.error]>>


----------------------------------------------------------------------------
(* The inputs the model draws *)

NoFile == Undefined   \* e.target.files?.[0] of an empty selection; no download yet

\* the characters of song texts: an ordinary one and the four the format treats
FieldAlphabet == {"a", COMMA, DQ, CR, LF}

FieldValues == SeqsUpTo(FieldAlphabet, MaxFieldLen)

BaseSong ==
  [title |-> <<"t">>, category |-> Angola, mnemonic |-> <<"m">>,
   lyrics |-> Undefined, mediaLink |-> Undefined]

\* songs with one text of arbitrary content; an optional text may be missing
VariedSongs ==
  {[BaseSong EXCEPT !.title = v, !.category = c] : v \in FieldValues, c \in ValidCategories}
  \cup {[BaseSong EXCEPT ![f] = v, !.category = c] :
          f \in {"mnemonic", "lyrics", "mediaLink"},
          v \in FieldValues \cup {Undefined},
          c \in ValidCategories}

PlainSongs ==
  {[title |-> <<"y">>, category |-> SaoBentoPequeno, mnemonic |-> <<"n">>,
    lyrics |-> <<"l", LF, "l">>, mediaLink |-> <<"u">>]}

SongLists ==
  {<<>>} \cup {<<s>> \o rest : s \in VariedSongs, rest \in SeqsUpTo(PlainSongs, MaxSongs - 1)}

\* header rows of files to import: canonical, reordered, other case and padding,
\* and two that lack a required column
HeaderChoices ==
  {<<Title, Category, Mnemonic, Lyrics, MediaLink>>,
   <<Category, Title>>,
   <<MediaLink, Mnemonic, Category, Title>>,
   <<<<"T", "I", "T", "L", "E">>, <<" ", "C", "a", "t", "e", "g", "o", "r", "y", " ">>, <<"M", "n", "e", "m", "o", "n", "i", "c">>, <<"M", "E", "D", "I", "A", "L", "I", "N", "K">>>>,
   <<Title, Mnemonic>>,
   <<Category, Mnemonic, MediaLink>>}

Foo == <<"f", "o", "o">>

\* what a data row of a file to import says, column by column
DataRows ==
  [title : {<<>>, <<"a">>},
   category : {Angola, Foo},
   mnemonic : {<<>>, <<"m">>},
   lyrics : {<<"x", COMMA, LF, "y">>},
   mediaLink : {<<"u">>}]
  \cup {[title |-> <<DQ>>, category |-> SaoBentoGrande, mnemonic |-> <<>>,
         lyrics |-> <<>>, mediaLink |-> <<>>]}

\* the column of a data row a header cell names
ColumnOf(headerCell) ==
  LET name == trim(toLowerCase(headerCell)) IN
  IF name = Title THEN "title"
  ELSE IF name = Category THEN "category"
  ELSE IF name = Mnemonic THEN "mnemonic"
  ELSE IF name = Lyrics THEN "lyrics"
  ELSE "mediaLink"

\* a file as a spreadsheet writes it: texts quoted, the category bare
FileLine(header, data) ==
  Join([k \in 1..Len(header) |->
          IF ColumnOf(header[k]) = "category" THEN data.category
          ELSE QuotedField(data[ColumnOf(header[k])])], <<COMMA>>)

FileText(header, dataRows) ==
  Join(<<Join(header, <<COMMA>>)>>
       \o [k \in 1..Len(dataRows) |-> FileLine(header, dataRows[k])], <<LF>>)

ImportFiles ==
  {FileText(h, d) : h \in HeaderChoices, d \in SeqsUpTo(DataRows, MaxDataRows)}

----------------------------------------------------------------------------
(* The pages: Home (export, the modal's switch) and ImportModal *)

\* handleExport: the download holds the serialized list
handleExport ==
  /\ csvContent' = ExportCsv(songs)
  /\ UNCHANGED <<songs, showImportModal, error, lastFile, callLog, chosen>>
  /\ UNCHANGED <<fnVars, dbVars>>

\* onClick={() => setShowImportModal(true)}
OpenImportModal ==
  /\ ~showImportModal
  /\ showImportModal' = TRUE
  /\ UNCHANGED <<songs, csvContent, error, lastFile, callLog, chosen>>
  /\ UNCHANGED <<fnVars, dbVars>>

\* the modal's X button: onClick={onClose}
CloseImportModal ==
  /\ showImportModal
  /\ showImportModal' = FALSE
  /\ UNCHANGED <<songs, csvContent, error, lastFile, callLog, chosen>>
  /\ UNCHANGED <<fnVars, dbVars>>

\* handleFileChange on a selected file. onImport is importSongs of the song
\* context, whose call and argument are recorded; onClose hides the modal.
handleFileChange(file) ==
  /\ showImportModal
  /\ file # NoFile
  /\ LET result == ImportResult(file) IN
       /\ lastFile' = file
       /\ callLog' = CallsOf(result)
       /\ error' = IF result.error = NoError THEN error ELSE result.error
       /\ showImportModal' = (result.error # NoError)
  /\ UNCHANGED <<songs, csvContent, chosen>>
  /\ UNCHANGED <<fnVars, dbVars>>

\* if (!file) return;
handleFileChangeNoFile ==
  /\ showImportModal
  /\ UNCHANGED vars

PageNext ==
  \/ handleExport
  \/ OpenImportModal
  \/ CloseImportModal
  \/ \E file \in {chosen, csvContent} : handleFileChange(file)
  \/ handleFileChangeNoFile


----------------------------------------------------------------------------
(* The storage layer: tables songs and prompter_settings under row-level   *)
(* security. A policy's USING expression filters the rows a statement sees; *)
(* a row that fails WITH CHECK aborts the statement with an error.          *)

Users == {"alice", "bob"}     \* rows of auth.users
Anon == "anon"                \* a request with no session: auth.uid() is NULL
Identities == Users \cup {Anon}

SongIds == 1..MaxSongIds
FontSizes == {"medium", "large"}
DefaultFontSize == "medium"  \* font_size text DEFAULT 'medium'
Keep == "keep"                \* a column an UPDATE does not set

\* inserted_by is history, not a column: the identity whose INSERT made the row
NoRow == [user_id |-> "none", title |-> "none", inserted_by |-> "none"]

\* TO authenticated
IsAuthenticated(actor) == actor \in Users

\* "Users can view own songs": USING (auth.uid() = user_id)
SongsSelectUsing(uid, row) == uid = row.user_id

\* "Users can insert own songs": WITH CHECK (auth.uid() = user_id)
SongsInsertCheck(uid, row) == uid = row.user_id

\* "Users can update own songs": USING (auth.uid() = user_id)
SongsUpdateUsing(uid, row) == uid = row.user_id

\* a variant: the policy without its WITH CHECK
SongsUpdateCheckAnyRow(uid, row) == TRUE

\* "Users can update own songs": WITH CHECK (auth.uid() = user_id)
SongsUpdateCheck(uid, row) == uid = row.user_id

\* a variant: USING (true)
SongsDeleteUsingAnyRow(uid, row) == TRUE

\* "Users can delete own songs": USING (auth.uid() = user_id)
SongsDeleteUsing(uid, row) == uid = row.user_id

\* "Users can view own settings": USING (auth.uid() = user_id)
SettingsSelectUsing(uid, row) == uid = row.user_id

\* "Users can insert own settings": WITH CHECK (auth.uid() = user_id)
SettingsInsertCheck(uid, row) == uid = row.user_id

\* "Users can update own settings": USING (auth.uid() = user_id)
SettingsUpdateUsing(uid, row) == uid = row.user_id

\* "Users can update own settings": WITH CHECK (auth.uid() = user_id)
SettingsUpdateCheck(uid, row) == uid = row.user_id

\* WHERE clauses: one row by its key, or every row
SongTargets == {{id} : id \in SongIds} \cup {SongIds}
SettingsTargets == {{u} : u \in Users} \cup {Users}

\* The migration grants nothing by name; the policies speak of authenticated
\* only. Whether a request with no session holds the table privilege is the
\* deployment's choice, so both outcomes are drawn.
Grants(actor) == IF IsAuthenticated(actor) THEN {TRUE} ELSE BOOLEAN

Request(op, table, actor, targets, submitted, status, returned, affected, before) ==
  [op |-> op, table |-> table, actor |-> actor, targets |-> targets,
   submitted |-> submitted, status |-> status, returned |-> returned,
   affected |-> affected, before |-> before]

NoRequest == Request("none", "none", Anon, {}, Keep, "ok", {}, 0, {})

\* the SET list of an UPDATE applied to a row
Patched(row, patch) ==
  [row EXCEPT !.user_id = IF patch.user_id = Keep THEN @ ELSE patch.user_id,
              !.title = IF patch.title = Keep THEN @ ELSE patch.title]

PatchedSettings(row, patch) ==
  [row EXCEPT !.user_id = IF patch.user_id = Keep THEN @ ELSE patch.user_id,
              !.font_size = IF patch.font_size = Keep THEN @ ELSE patch.font_size]

PageIdle == UNCHANGED <<csvVars, fnVars>>

\* SELECT ... FROM songs WHERE id IN targets
SelectSongs(actor, granted, targets) ==
  /\ lastReq = NoRequest
  /\ LET visible == {id \in targets : songsTbl[id] # NoRow /\ IsAuthenticated(actor)
                                      /\ SongsSelectUsing(actor, songsTbl[id])}
     IN /\ lastReq' = IF granted
                      THEN Request("select", "songs", actor, targets, Keep, "ok",
                                   {songsTbl[id] : id \in visible}, 0, songsTbl)
                      ELSE Request("select", "songs", actor, targets, Keep, "rejected",
                                   {}, 0, songsTbl)
        /\ UNCHANGED <<songsTbl, settingsTbl>>
        /\ PageIdle

\* INSERT INTO songs (user_id, title): the id is gen_random_uuid()
InsertSong(actor, granted, user_id) ==
  /\ lastReq = NoRequest
  /\ \E id \in SongIds :
       /\ songsTbl[id] = NoRow
       /\ LET row == [user_id |-> user_id, title |-> "t0", inserted_by |-> actor]
              ok == granted /\ IsAuthenticated(actor) /\ SongsInsertCheck(actor, row)
          IN /\ songsTbl' = IF ok THEN [songsTbl EXCEPT ![id] = row] ELSE songsTbl
             /\ lastReq' = Request("insert", "songs", actor, {id},
                                   [user_id |-> user_id, title |-> "t0"],
                                   IF ok THEN "ok" ELSE "rejected", {},
                                   IF ok THEN 1 ELSE 0, songsTbl)
       /\ UNCHANGED settingsTbl
       /\ PageIdle

\* UPDATE songs SET ... WHERE id IN targets
UpdateSongs(actor, granted, targets, patch) ==
  /\ lastReq = NoRequest
  /\ LET visible == {id \in targets : songsTbl[id] # NoRow /\ IsAuthenticated(actor)
                                      /\ SongsUpdateUsing(actor, songsTbl[id])}
         new == [id \in SongIds |-> IF id \in visible THEN Patched(songsTbl[id], patch)
                                    ELSE songsTbl[id]]
         ok == granted /\ \A id \in visible : SongsUpdateCheck(actor, new[id])
     IN /\ songsTbl' = IF ok THEN new ELSE songsTbl
        /\ lastReq' = Request("update", "songs", actor, targets, patch,
                              IF ok THEN "ok" ELSE "rejected", {},
                              IF ok THEN Cardinality(visible) ELSE 0, songsTbl)
        /\ UNCHANGED settingsTbl
        /\ PageIdle

\* DELETE FROM songs WHERE id IN targets
DeleteSongs(actor, granted, targets) ==
  /\ lastReq = NoRequest
  /\ LET visible == {id \in targets : songsTbl[id] # NoRow /\ IsAuthenticated(actor)
                                      /\ SongsDeleteUsing(actor, songsTbl[id])}
     IN /\ songsTbl' = IF granted
                       THEN [id \in SongIds |-> IF id \in visible THEN NoRow ELSE songsTbl[id]]
                       ELSE songsTbl
        /\ lastReq' = Request("delete", "songs", actor, targets, Keep,
                              IF granted THEN "ok" ELSE "rejected", {},
                              IF granted THEN Cardinality(visible) ELSE 0, songsTbl)
        /\ UNCHANGED settingsTbl
        /\ PageIdle

\* SELECT ... FROM prompter_settings WHERE user_id IN targets
SelectSettings(actor, granted, targets) ==
  /\ lastReq = NoRequest
  /\ LET visible == {r \in settingsTbl : r.user_id \in targets /\ IsAuthenticated(actor)
                                         /\ SettingsSelectUsing(actor, r)}
     IN /\ lastReq' = Request("select", "prompter_settings", actor, targets, Keep,
                              IF granted THEN "ok" ELSE "rejected",
                              IF granted THEN visible ELSE {}, 0, settingsTbl)
        /\ UNCHANGED <<songsTbl, settingsTbl>>
        /\ PageIdle

\* user_id uuid PRIMARY KEY
SettingsKeyIsUnique(tbl) ==
  \A r1 \in tbl, r2 \in tbl : r1.user_id = r2.user_id => r1 = r2

\* INSERT INTO prompter_settings (user_id): the other columns take their defaults
InsertSettings(actor, granted, user_id) ==
  /\ lastReq = NoRequest
  /\ LET row == [user_id |-> user_id, font_size |-> DefaultFontSize, inserted_by |-> actor]
         ok == /\ granted /\ IsAuthenticated(actor) /\ SettingsInsertCheck(actor, row)
               /\ SettingsKeyIsUnique(settingsTbl \cup {row})
     IN /\ settingsTbl' = IF ok THEN settingsTbl \cup {row} ELSE settingsTbl
        /\ lastReq' = Request("insert", "prompter_settings", actor, {user_id},
                              [user_id |-> user_id, font_size |-> DefaultFontSize],
                              IF ok THEN "ok" ELSE "rejected", {},
                              IF ok THEN 1 ELSE 0, settingsTbl)
        /\ UNCHANGED songsTbl
        /\ PageIdle

\* UPDATE prompter_settings SET ... WHERE user_id IN targets
UpdateSettings(actor, granted, targets, patch) ==
  /\ lastReq = NoRequest
  /\ LET visible == {r \in settingsTbl : r.user_id \in targets /\ IsAuthenticated(actor)
                                         /\ SettingsUpdateUsing(actor, r)}
         new == (settingsTbl \ visible) \cup {PatchedSettings(r, patch) : r \in visible}
         ok == /\ granted
               /\ \A r \in visible : SettingsUpdateCheck(actor, PatchedSettings(r, patch))
               /\ SettingsKeyIsUnique(new)
               /\ Cardinality(new) = Cardinality(settingsTbl)
     IN /\ settingsTbl' = IF ok THEN new ELSE settingsTbl
        /\ lastReq' = Request("update", "prompter_settings", actor, targets, patch,
                              IF ok THEN "ok" ELSE "rejected", {},
                              IF ok THEN Cardinality(visible) ELSE 0, settingsTbl)
        /\ UNCHANGED songsTbl
        /\ PageIdle

SongPatches == [user_id : Users \cup {Keep}, title : {"t1", Keep}]
SettingsPatches == [user_id : Users \cup {Keep}, font_size : {"large", Keep}]

\* the client takes the outcome of its statement; statements run one at a time
DeliverResponse ==
  /\ lastReq # NoRequest
  /\ lastReq' = NoRequest
  /\ UNCHANGED <<songsTbl, settingsTbl>>
  /\ PageIdle

Statement ==
  \E actor \in Identities : \E granted \in Grants(actor) :
    \/ \E targets \in SongTargets : SelectSongs(actor, granted, targets)
    \/ \E user_id \in Users : InsertSong(actor, granted, user_id)
    \/ \E targets \in SongTargets, patch \in SongPatches :
         UpdateSongs(actor, granted, targets, patch)
    \/ \E targets \in SongTargets : DeleteSongs(actor, granted, targets)
    \/ \E targets \in SettingsTargets : SelectSettings(actor, granted, targets)
    \/ \E user_id \in Users : InsertSettings(actor, granted, user_id)
    \/ \E targets \in SettingsTargets, patch \in SettingsPatches :
         UpdateSettings(actor, granted, targets, patch)

StorageNext == Statement \/ DeliverResponse

----------------------------------------------------------------------------
(* The pure functions, applied to drawn inputs *)

TextAlphabet == {"a", COMMA, DQ, CR, LF}
QuotedAlphabet == {"a", COMMA, DQ}

\* a quoted field alone on its line, after a field, before a field
QuotedPrefixes == {<<>>, <<"a", COMMA>>}
QuotedSuffixes == {<<>>, <<LF>>, <<CR, LF>>, <<COMMA, "a">>}

QuotedLines ==
  {pre \o QuotedField(v) \o post :
     pre \in QuotedPrefixes, v \in SeqsUpTo(QuotedAlphabet, MaxQuotedLen) \ {<<>>},
     post \in QuotedSuffixes}

ParseInputs == SeqsUpTo(TextAlphabet, MaxTextLen) \cup QuotedLines

ApplyParseCSV ==
  /\ pc = "input"
  /\ rows' = parseCSV(text)
  /\ pc' = "parsed"
  /\ UNCHANGED <<text, cell, once, twice>>
  /\ UNCHANGED <<csvVars, dbVars>>

ApplyUnquotePass ==
  /\ pc = "cell"
  /\ once' = UnquotePass(cell)
  /\ pc' = "once"
  /\ UNCHANGED <<text, rows, cell, twice>>
  /\ UNCHANGED <<csvVars, dbVars>>

ApplyUnquotePassAgain ==
  /\ pc = "once"
  /\ twice' = UnquotePass(once)
  /\ pc' = "twice"
  /\ UNCHANGED <<text, rows, cell, once>>
  /\ UNCHANGED <<csvVars, dbVars>>

----------------------------------------------------------------------------
(* Specifications *)

PageInit ==
  /\ csvContent = NoFile
  /\ showImportModal = FALSE
  /\ error = NoError
  /\ lastFile = NoFile
  /\ callLog = <<>>

FnInit == text = <<>> /\ rows = <<>> /\ cell = <<>> /\ once = <<>> /\ twice = <<>>

StorageInit ==
  /\ songsTbl = [id \in SongIds |-> NoRow]
  /\ settingsTbl = {}
  /\ lastReq = NoRequest

\* the song book: the user's list, exported and imported back
Init ==
  /\ PageInit /\ FnInit /\ StorageInit
  /\ pc = "idle"
  /\ songs \in SongLists
  /\ chosen = NoFile

Next == PageNext

Spec == Init /\ [][Next]_vars

\* the import of a file from the user's disk
ImportInit ==
  /\ PageInit /\ FnInit /\ StorageInit
  /\ pc = "idle"
  /\ songs = <<>>
  /\ chosen \in ImportFiles

ImportNext ==
  \/ OpenImportModal
  \/ CloseImportModal
  \/ handleFileChange(chosen)
  \/ handleFileChangeNoFile

ImportSpec == ImportInit /\ [][ImportNext]_vars

\* the storage layer under requests of every identity
DbInit ==
  /\ PageInit /\ FnInit /\ StorageInit
  /\ pc = "idle"
  /\ songs = <<>>
  /\ chosen = NoFile

DbSpec == DbInit /\ [][StorageNext]_vars

\* parseCSV on drawn texts
ParseInit ==
  /\ PageInit /\ StorageInit
  /\ songs = <<>> /\ chosen = NoFile
  /\ pc = "input"
  /\ text \in ParseInputs
  /\ rows = <<>> /\ cell = <<>> /\ once = <<>> /\ twice = <<>>

ParseSpec == ParseInit /\ [][ApplyParseCSV]_vars

\* the un-quoting pass on drawn cells
UnquoteInit ==
  /\ PageInit /\ StorageInit
  /\ songs = <<>> /\ chosen = NoFile
  /\ pc = "cell"
  /\ cell \in SeqsUpTo(QuotedAlphabet, MaxCellLen)
  /\ text = <<>> /\ rows = <<>> /\ once = <<>> /\ twice = <<>>

UnquoteNext == ApplyUnquotePass \/ ApplyUnquotePassAgain

UnquoteSpec == UnquoteInit /\ [][UnquoteNext]_vars


----------------------------------------------------------------------------
(* Properties of parseCSV *)

RECURSIVE Doubled(_)
\* a value as the format writes it inside quotes: every double quote twice
Doubled(v) ==
  IF v = <<>> THEN <<>>
  ELSE Doubled(Front(v)) \o (IF Last(v) = DQ THEN <<DQ, DQ>> ELSE <<Last(v)>>)

Written(v) == <<DQ>> \o Doubled(v) \o <<DQ>>

QuotedValues == SeqsUpTo(QuotedAlphabet, MaxQuotedLen) \ {<<>>}

ExpectedRow(pre, v, post) ==
  (IF pre = <<>> THEN <<>> ELSE <<<<"a">>>>)
  \o <<v>>
  \o (IF post = <<COMMA, "a">> THEN <<<<"a">>>> ELSE <<>>)

\* C8: a field written as a double quote, the value with each double quote
\* doubled, and a closing double quote parses to exactly the value: commas inside
\* the quotes do not split the field, each doubled quote yields one quote.
QuotedFieldDecodes ==
  pc = "parsed" =>
    \A pre \in QuotedPrefixes, v \in QuotedValues, post \in QuotedSuffixes :
      text = pre \o Written(v) \o post => rows = <<ExpectedRow(pre, v, post)>>

\* the line a,""",a" and a line feed: the second field is ",a with its quote and comma
QuotedFieldDecoded ==
  /\ pc = "parsed"
  /\ text = <<"a", COMMA, DQ, DQ, DQ, COMMA, "a", DQ, LF>>
  /\ rows = <<<<<<"a">>, <<DQ, COMMA, "a">>>>>>

RECURSIVE SplitOn(_, _)
\* the pieces of s between the characters of seps
SplitOn(s, seps) ==
  IF \A k \in 1..Len(s) : s[k] \notin seps THEN <<s>>
  ELSE LET k == CHOOSE j \in 1..Len(s) :
                  s[j] \in seps /\ \A h \in (j + 1)..Len(s) : s[h] \notin seps
       IN Append(SplitOn(SubSeq(s, 1, k - 1), seps), SubSeq(s, k + 1, Len(s)))

\* the rows of a text without quotes: its non-blank lines, split at the commas
UnquotedRows(t) ==
  LET lines == SelectSeq(SplitOn(t, {CR, LF}), LAMBDA l : l # <<>>)
  IN [k \in 1..Len(lines) |-> SplitOn(lines[k], {COMMA})]

\* C9, outside quotes: CR, LF and CR LF each end a row once; blank lines and a
\* trailing terminator give no row.
TerminatorsOutsideQuotes ==
  pc = "parsed" /\ (\A k \in 1..Len(text) : text[k] # DQ) => rows = UnquotedRows(text)

\* C9, inside quotes: every CR and every LF, both characters of a CR LF pair
\* included, is kept in the field and ends no row.
TerminatorsInsideQuotes ==
  pc = "parsed" =>
    \A v \in SeqsUpTo({"a", COMMA, CR, LF}, MaxTextLen) \ {<<>>} :
      text = <<DQ>> \o v \o <<DQ>> => rows = <<<<v>>>>

\* C9: the handling of line terminators, outside and inside a quoted field
LineTerminatorHandling == TerminatorsOutsideQuotes /\ TerminatorsInsideQuotes

----------------------------------------------------------------------------
(* Properties of the un-quoting pass *)

\* C10 as stated: the pass applied twice gives what the pass applied once gives
UnquotePassIdempotent == pc = "twice" => twice = once

QuoteCount(v) == Cardinality({k \in 1..Len(v) : v[k] = DQ})

\* C10 amended: on a cell with at most one double quote the pass applied twice
\* gives what the pass applied once gives.
UnquotePassIdempotentUpToOneQuote ==
  pc = "twice" /\ QuoteCount(cell) <= 1 => twice = once

\* the pass took the quote off "a and a second pass leaves a as it is
UnquotePassActed ==
  pc = "twice" /\ cell = <<DQ, "a">> /\ once = <<"a">> /\ twice = <<"a">>

----------------------------------------------------------------------------
(* Properties of the export *)

ReferenceHeader ==
  <<"t", "i", "t", "l", "e", ",", "c", "a", "t", "e", "g", "o", "r", "y", ",", "m", "n", "e", "m", "o", "n", "i", "c", ",", "l", "y", "r", "i", "c", "s", ",", "m", "e", "d", "i", "a", "L", "i", "n", "k">>

\* a song's line as the format describes it; quoteCategory tells whether the
\* category is wrapped in quotes like the texts
ReferenceRow(song, quoteCategory) ==
  Written(song.title) \o <<COMMA>>
  \o (IF quoteCategory THEN Written(song.category) ELSE song.category) \o <<COMMA>>
  \o Written(IF song.mnemonic = Undefined THEN <<>> ELSE song.mnemonic) \o <<COMMA>>
  \o Written(IF song.lyrics = Undefined THEN <<>> ELSE song.lyrics) \o <<COMMA>>
  \o Written(IF song.mediaLink = Undefined THEN <<>> ELSE song.mediaLink)

RECURSIVE ReferenceCsv(_, _)
ReferenceCsv(list, quoteCategory) ==
  IF list = <<>> THEN ReferenceHeader
  ELSE ReferenceCsv(Front(list), quoteCategory) \o <<LF>>
       \o ReferenceRow(Last(list), quoteCategory)

\* C6 as stated: the export is the header and one line per song in list order,
\* joined by single line feeds with none at the end, all five values of a line in
\* double quotes with interior quotes doubled, a missing text written "".
ExportQuotesEveryField ==
  csvContent # NoFile => csvContent = ReferenceCsv(songs, TRUE)

\* C6 amended: as stated, except that the category is written bare; the four
\* texts are in double quotes.
ExportQuotesEveryText ==
  csvContent # NoFile => csvContent = ReferenceCsv(songs, FALSE)

\* an export of two songs, the first with a quote in its title and no lyrics
ExportedQuotedTitle ==
  /\ csvContent # NoFile
  /\ Len(songs) = 2
  /\ songs[1].title = <<DQ, "a">>
  /\ songs[1].lyrics = Undefined

\* a text of a song and of an imported record, a missing one read as empty
TextOf(value) == IF value = Undefined THEN <<>> ELSE value

\* C1: a single song with a title or a mnemonic, exported and imported back,
\* reaches onImport as one record with the same title, category, mnemonic,
\* lyrics and mediaLink, character for character.
RoundTripIdentity ==
  (/\ lastFile # NoFile
   /\ lastFile = csvContent
   /\ Len(songs) = 1
   /\ (songs[1].title # <<>> \/ TextOf(songs[1].mnemonic) # <<>>))
  => /\ Len(callLog) = 2
     /\ callLog[1].fn = "onImport"
     /\ Len(callLog[1].arg) = 1
     /\ LET record == callLog[1].arg[1] IN
          /\ TextOf(Get(record, Title)) = songs[1].title
          /\ Get(record, Category) = songs[1].category
          /\ TextOf(Get(record, Mnemonic)) = TextOf(songs[1].mnemonic)
          /\ TextOf(Get(record, Lyrics)) = TextOf(songs[1].lyrics)
          /\ TextOf(Get(record, MediaLink)) = TextOf(songs[1].mediaLink)


----------------------------------------------------------------------------
(* Properties of the import *)

\* the file of the last run as parseCSV reads it
ParsedFile == parseCSV(lastFile)

\* the header row has a column of this name, whatever its case and padding
HasColumn(parsed, name) ==
  \E k \in 1..Len(parsed[1]) : trim(toLowerCase(parsed[1][k])) = toLowerCase(name)

\* what data row r (row 1 is the header) says in the column of this name: the
\* cell after the un-quoting pass, of the last such column; Undefined without one
ColumnValue(parsed, r, name) ==
  LET ks == {k \in 1..Len(parsed[1]) : trim(toLowerCase(parsed[1][k])) = toLowerCase(name)}
  IN IF ks = {} THEN Undefined
     ELSE LET k == CHOOSE j \in ks : \A h \in ks : h <= j
          IN UnquotePass(IF k <= Len(parsed[r]) THEN parsed[r][k] ELSE <<>>)

RowIsInvalid(parsed, r) ==
  \/ /\ ColumnValue(parsed, r, Title) \in {Undefined, <<>>}
     /\ ColumnValue(parsed, r, Mnemonic) \in {Undefined, <<>>}
  \/ ColumnValue(parsed, r, Category) \notin {Angola, SaoBentoPequeno, SaoBentoGrande}

HeaderIsValid(parsed) == HasColumn(parsed, Title) /\ HasColumn(parsed, Category)

FileIsRejected(parsed) ==
  \/ Len(parsed) < 2
  \/ ~HeaderIsValid(parsed)
  \/ \E r \in 2..Len(parsed) : RowIsInvalid(parsed, r)

Calls(fn) == {k \in 1..Len(callLog) : callLog[k].fn = fn}

\* C3: a run of handleFileChange calls onImport at most once; on a file with
\* fewer than two rows, without a title or category column, or with an invalid
\* data row it calls neither onImport nor onClose and sets the error; on any
\* other file it calls onImport once, with one record per data row in file
\* order, and then onClose.
ValidateThenWriteAll ==
  lastFile # NoFile =>
    LET parsed == ParsedFile IN
    /\ Cardinality(Calls("onImport")) <= 1
    /\ FileIsRejected(parsed) =>
         /\ Calls("onImport") = {}
         /\ Calls("onClose") = {}
         /\ Calls("setError") # {}
         /\ error # NoError
         /\ \A k \in Calls("setError") : callLog[k].arg = error
    /\ ~FileIsRejected(parsed) =>
         /\ Len(callLog) = 2
         /\ callLog[1].fn = "onImport"
         /\ callLog[2].fn = "onClose"
         /\ Len(callLog[1].arg) = Len(parsed) - 1
         /\ \A k \in 1..Len(callLog[1].arg) :
              /\ Get(callLog[1].arg[k], Title) = ColumnValue(parsed, k + 1, Title)
              /\ Get(callLog[1].arg[k], Category) = ColumnValue(parsed, k + 1, Category)

\* a file whose first data row is valid and whose second is not: nothing is
\* handed to onImport, the modal stays open with the error
ValidRowBeforeFailingRowNotWritten ==
  /\ lastFile # NoFile
  /\ Len(ParsedFile) = 3
  /\ HeaderIsValid(ParsedFile)
  /\ ~RowIsInvalid(ParsedFile, 2)
  /\ RowIsInvalid(ParsedFile, 3)
  /\ Len(callLog) = 1
  /\ callLog[1].fn = "setError"
  /\ showImportModal

RowErrorKinds == {"titleOrMnemonic", "category"}

\* C4: with a valid header and at least one data row the import fails with a
\* per-row error exactly when some data row has neither title nor mnemonic, or a
\* category outside the three; the line reported is k + 1 for the first such
\* row k, counted from 1. A row with a mnemonic, no title and a valid category
\* is accepted.
RowValidationRule ==
  lastFile # NoFile /\ Len(ParsedFile) >= 2 /\ HeaderIsValid(ParsedFile) =>
    LET parsed == ParsedFile
        bad == {k \in 1..(Len(parsed) - 1) : RowIsInvalid(parsed, k + 1)}
        failed == callLog[1].fn = "setError" /\ callLog[1].arg.kind \in RowErrorKinds
    IN /\ failed <=> bad # {}
       /\ bad # {} =>
            callLog[1].arg.line = (CHOOSE k \in bad : \A h \in bad : k <= h) + 1
       /\ \A k \in 1..(Len(parsed) - 1) :
            (/\ ColumnValue(parsed, k + 1, Title) \in {Undefined, <<>>}
             /\ ColumnValue(parsed, k + 1, Mnemonic) \notin {Undefined, <<>>}
             /\ ColumnValue(parsed, k + 1, Category) \in ValidCategories)
            => k \notin bad

\* a first data row with a mnemonic and no title is accepted; the second row's
\* category foo is reported at line 3
SecondRowCategoryReported ==
  /\ lastFile # NoFile
  /\ Len(ParsedFile) = 3
  /\ HeaderIsValid(ParsedFile)
  /\ ColumnValue(ParsedFile, 2, Title) = <<>>
  /\ ColumnValue(ParsedFile, 2, Mnemonic) = <<"m">>
  /\ callLog = <<[fn |-> "setError",
                  arg |-> [kind |-> "category", line |-> 3, category |-> Foo]]>>

CanonicalFields == {Title, Category, Mnemonic, Lyrics, MediaLink}

\* C5: the header is matched whatever its case and column order, and every
\* record handed to onImport holds, under the names title, category, mnemonic,
\* lyrics and mediaLink, the values of the columns so headed.
ImportColumnMapping ==
  lastFile # NoFile /\ Calls("onImport") # {} =>
    LET parsed == ParsedFile
        records == callLog[1].arg
    IN \A k \in 1..Len(records) : \A name \in CanonicalFields :
         HasColumn(parsed, name) => Get(records[k], name) = ColumnValue(parsed, k + 1, name)


----------------------------------------------------------------------------
(* Properties of the storage layer *)

OnSongs(ops) == lastReq.table = "songs" /\ lastReq.op \in ops

\* the rows of songs a statement names that exist and belong to someone else
ForeignTargets ==
  {id \in lastReq.targets :
     lastReq.before[id] # NoRow /\ lastReq.before[id].user_id # lastReq.actor}

\* the rows of songs a statement names that exist and belong to its sender
OwnTargets ==
  {id \in lastReq.targets :
     lastReq.before[id] # NoRow /\ lastReq.before[id].user_id = lastReq.actor}

RowUntouched(id) ==
  /\ lastReq.before[id] \notin lastReq.returned
  /\ songsTbl[id] = lastReq.before[id]

\* C2 as stated: a read, update or delete that names a song of another owner is
\* rejected, and the row is neither returned nor changed nor removed.
ForeignRequestDenied ==
  OnSongs({"select", "update", "delete"}) =>
    \A id \in ForeignTargets : lastReq.status = "rejected" /\ RowUntouched(id)

\* C2 amended: such a row is neither returned nor changed nor removed, but the
\* statement is not rejected for it: from an authenticated identity, a statement
\* that names only songs of other owners succeeds with no row returned and no
\* row affected.
ForeignRowsFiltered ==
  OnSongs({"select", "update", "delete"}) =>
    /\ \A id \in ForeignTargets : RowUntouched(id)
    /\ (ForeignTargets # {} /\ OwnTargets = {} /\ IsAuthenticated(lastReq.actor)) =>
         /\ lastReq.status = "ok"
         /\ lastReq.returned = {}
         /\ lastReq.affected = 0

\* alice deletes bob's song: the statement succeeds on zero rows, the row stays
ForeignDeleteIsNoOp ==
  /\ OnSongs({"delete"})
  /\ lastReq.actor = "alice"
  /\ \E id \in lastReq.targets : lastReq.before[id].user_id = "bob"
  /\ OwnTargets = {}
  /\ lastReq.status = "ok"
  /\ lastReq.affected = 0
  /\ songsTbl = lastReq.before

OwnerIsInserter ==
  /\ \A id \in SongIds : songsTbl[id] # NoRow => songsTbl[id].user_id = songsTbl[id].inserted_by
  /\ \A r \in settingsTbl : r.user_id = r.inserted_by

\* an INSERT or UPDATE of an authenticated identity that submits another owner
SubmitsOtherOwner ==
  /\ lastReq.op \in {"insert", "update"}
  /\ IsAuthenticated(lastReq.actor)
  /\ lastReq.submitted.user_id \notin {Keep, lastReq.actor}

TableUnchanged ==
  IF lastReq.table = "songs" THEN songsTbl = lastReq.before
  ELSE settingsTbl = lastReq.before

\* the statement writes a row: an INSERT, or an UPDATE that names a row of its sender
WritesARow ==
  \/ lastReq.op = "insert"
  \/ lastReq.table = "songs" /\ OwnTargets # {}
  \/ /\ lastReq.table = "prompter_settings"
     /\ \E r \in lastReq.before : r.user_id \in lastReq.targets /\ r.user_id = lastReq.actor

\* C7 as stated: every row's owner is the identity that inserted it, and an
\* insert or update that submits another owner is rejected and leaves the table
\* unchanged.
OwnerImmutable ==
  /\ OwnerIsInserter
  /\ SubmitsOtherOwner => lastReq.status = "rejected" /\ TableUnchanged

\* C7 amended: every row's owner is the identity that inserted it; an insert or
\* update that submits another owner leaves the table unchanged, and is rejected
\* whenever it would write a row (an update that names no row of its sender
\* succeeds on zero rows).
OwnerImmutableUnlessNoRow ==
  /\ OwnerIsInserter
  /\ SubmitsOtherOwner =>
       /\ TableUnchanged
       /\ WritesARow => lastReq.status = "rejected"
       /\ ~WritesARow => lastReq.status = "ok" /\ lastReq.affected = 0

\* alice tries to hand her own song to bob: rejected, the table as before
TransferRejected ==
  /\ OnSongs({"update"})
  /\ lastReq.actor = "alice"
  /\ lastReq.submitted.user_id = "bob"
  /\ OwnTargets # {}
  /\ lastReq.status = "rejected"
  /\ songsTbl = lastReq.before

====
